---- MODULE Spec2Model ----
(***************************************************************************)
(* A model of the Befunge interpreter of src/befunge.py: the Lexer (grid,  *)
(* cursor, string mode), the commands and BefungeInterpreter.interpret.    *)
(* One action is one token of Lexer.tokens together with the interpreter's *)
(* handling of it and the lexer's advance that follows.                    *)
(***************************************************************************)
EXTENDS Integers, Sequences, FiniteSets, TLC

\* source      the argument str of interpret
\* program     Lexer.program, the rows of the grid
\* xpos, ypos  Lexer.xpos, Lexer.ypos
\* dx, dy      Lexer.dx, Lexer.dy
\* data        BefungeInterpreter._data, the top last
\* output      BefungeInterpreter._output
\* token       the token the loop of interpret handled last
\* pc          "init" before interpret, "tokens" at the top of the loop of Lexer.tokens,
\*             "string" in the loop of Lexer.string, "returned" or "raised" after interpret
\* returned    what interpret returned
\* exception   what interpret raised
VARIABLES source, program, xpos, ypos, dx, dy, data, output, token, pc, returned, exception

vars == <<source, program, xpos, ypos, dx, dy, data, output, token, pc, returned, exception>>

---------------------------------------------------------------------------
(* Bounds of the model *)

\* deepest data stack the model follows (the factorial run needs 11)
MaxStack == 12
\* largest absolute value the model pushes (8! = 40320)
MaxValue == 40320
\* largest character code the p command writes in the model (ASCII)
MaxChar == 127
\* operands built by the stack programs range over -MaxOperand..MaxOperand
MaxOperand == 2
\* cells pushed below the operands of a stack program
MaxFill == 1
\* length of the one-row programs over LexAlphabet
MaxLen == 4
\* number of digits of the digit-dot programs
MaxDigits == 3
\* row length of the two-row programs over GridAlphabet
MaxRowLen == 2
\* the put programs write at rows -MaxCoord..MaxCoord and at columns from -MaxCoord on
MaxCoord == 2

---------------------------------------------------------------------------
(* Characters: a character is a one-character string; ord and chr go       *)
(* through the ASCII table.                                                *)

\* the character with code 96 (the greater-than command), named by its code
Backtick == "U+96"

Printable ==
  << " ", "!", "\"", "#", "$", "%", "&", "'", "(", ")", "*", "+", ",", "-", ".", "/",
     "0", "1", "2", "3", "4", "5", "6", "7", "8", "9", ":", ";", "<", "=", ">", "?",
     "@", "A", "B", "C", "D", "E", "F", "G", "H", "I", "J", "K", "L", "M", "N", "O",
     "P", "Q", "R", "S", "T", "U", "V", "W", "X", "Y", "Z", "[", "\\", "]", "^", "_",
     Backtick, "a", "b", "c", "d", "e", "f", "g", "h", "i", "j", "k", "l", "m", "n", "o",
     "p", "q", "r", "s", "t", "u", "v", "w", "x", "y", "z", "{", "|", "}", "~" >>

\* code of the first printable character, and the largest code point of chr()
FirstPrintable == 32
MaxCodePoint == 1114111

IsPrintable(c) == \E i \in 1..Len(Printable) : Printable[i] = c

\* chr(v), for 0 <= v <= MaxCodePoint; a character outside the table is named by its code
Chr(v) ==
  IF v >= FirstPrintable /\ v < FirstPrintable + Len(Printable)
  THEN Printable[v - FirstPrintable + 1]
  ELSE "U+" \o ToString(v)

\* ord(c)
Ord(c) ==
  IF IsPrintable(c)
  THEN FirstPrintable - 1 + (CHOOSE i \in 1..Len(Printable) : Printable[i] = c)
  ELSE CHOOSE v \in (0..(FirstPrintable - 1)) \cup ((FirstPrintable + Len(Printable))..MaxChar) :
         Chr(v) = c

DigitChars == <<"0", "1", "2", "3", "4", "5", "6", "7", "8", "9">>

\* str.isdigit() on the characters of the model
IsDigit(c) == \E i \in 1..Len(DigitChars) : DigitChars[i] = c

\* int(char) of a digit character
IntOfDigit(c) == (CHOOSE i \in 1..Len(DigitChars) : DigitChars[i] = c) - 1

RECURSIVE FormatNat(_)
FormatNat(n) ==
  IF n < 10 THEN DigitChars[n + 1]
  ELSE FormatNat(n \div 10) \o DigitChars[(n % 10) + 1]

\* "{:d}".format(v)
FormatInteger(v) == IF v < 0 THEN "-" \o FormatNat(-v) ELSE FormatNat(v)

\* "{:c}".format(v), defined for 0 <= v <= MaxCodePoint
FormatAscii(v) == Chr(v)

RECURSIVE Join(_)
\* "".join(list)
Join(list) == IF list = <<>> THEN "" ELSE Head(list) \o Join(Tail(list))

\* the keys of Command.dict(): the token of every command class
CommandLexemes ==
  { " ", ">", "<", "^", "v", "+", "-", "*", "/", Backtick, "%", "!", ".", ",", ":",
    "_", "|", "?", "\\", "$", "#", "p", "g", "@" }

---------------------------------------------------------------------------
(* Python lists: an index i of a list of length n is valid for -n <= i < n *)
(* and a negative index counts from the end.                               *)

PyHasIndex(list, i) == -Len(list) <= i /\ i < Len(list)

PyIndex(list, i) == IF i >= 0 THEN list[i + 1] ELSE list[Len(list) + i + 1]

PySetIndex(list, i, v) ==
  [list EXCEPT ![IF i >= 0 THEN i + 1 ELSE Len(list) + i + 1] = v]

\* program[y][x] does not raise IndexError
HasCell(y, x) == PyHasIndex(program, y) /\ PyHasIndex(PyIndex(program, y), x)

\* program[y][x]
CellAt(y, x) == PyIndex(PyIndex(program, y), x)

RECURSIVE SplitLines(_)
\* string.split('\n'), each line as list(line)
SplitLines(text) ==
  IF \E i \in 1..Len(text) : text[i] = "\n"
  THEN LET i == CHOOSE k \in 1..Len(text) :
                  text[k] = "\n" /\ \A j \in 1..(k - 1) : text[j] # "\n"
       IN  <<SubSeq(text, 1, i - 1)>> \o SplitLines(SubSeq(text, i + 1, Len(text)))
  ELSE <<text>>

---------------------------------------------------------------------------
(* The programs the model interprets *)

\* the sequences over S of length at most n
SeqsUpTo(S, n) == UNION { [1..k -> S] : k \in 0..n }

\* the program text of the factorial test
FactorialRow0 ==
  <<"0", "8", ">", ":", "1", "-", ":", "v", " ", "v", " ", "*", "_", "$", ".", "@", " ">>
FactorialRow1 ==
  <<" ", " ", "^", " ", " ", " ", " ", "_", "$", ">", "\\", ":", "^">>
FactorialProgram == FactorialRow0 \o <<"\n">> \o FactorialRow1

\* the counting test: '>987v>.v\nv456<  :\n>321 ^ _@'
CountingProgram ==
  <<">", "9", "8", "7", "v", ">", ".", "v", "\n",
    "v", "4", "5", "6", "<", " ", " ", ":", "\n",
    ">", "3", "2", "1", " ", "^", " ", "_", "@">>

\* a one-row Hello World: the string is pushed reversed and printed until the 0 below it
HelloProgram ==
  <<"0", "\"", "!", "i", "H", "\"", ">", ":", "#", ",", "_", "@">>

\* self-modification: write 'A' over the cell at (0,0), read it back, print it
PutGetProgram ==
  <<"\"", "A", "\"", "0", "0", "p", "0", "0", "g", ",", "@">>

\* rows of different length: the cursor turns down at (3,0) onto a column row 1 does not have
RaggedProgram ==
  <<"1", ".", "2", "v", "\n", "3">>

TestPrograms == {FactorialProgram, CountingProgram, HelloProgram, PutGetProgram, RaggedProgram}

\* the cells that push v: a digit, or 0 d - for a negative value
Builder(v) == IF v >= 0 THEN <<DigitChars[v + 1]>> ELSE <<"0", DigitChars[(-v) + 1], "-">>

Operands == (-MaxOperand)..MaxOperand

\* the cells that build a stack: up to MaxFill+1 fillers, then up to two operands
StackPrefixes ==
  LET fills == { [i \in 1..k |-> DigitChars[i + 5]] : k \in 0..MaxFill }
      ops   == {<<>>} \cup { Builder(a) : a \in Operands }
                      \cup { Builder(b) \o Builder(a) : b \in Operands, a \in Operands }
  IN  { f \o o : f \in fills, o \in ops }

\* every cell a one-command body may hold: the commands, the quote, illegal characters
BodyCells == CommandLexemes \cup {"\"", "a", "~"}

\* build a stack, then run one cell
StackPrograms == { p \o <<c>> : p \in StackPrefixes, c \in BodyCells }

LexAlphabet == {"1", "\"", "a", "#", "@", "<", ":", "."}

\* one-row programs that exercise the lexer
LexPrograms == SeqsUpTo(LexAlphabet, MaxLen)

\* n digits followed by n dots
DigitDotPrograms ==
  { d \o [i \in 1..Len(d) |-> "."] : d \in SeqsUpTo({DigitChars[i] : i \in 1..10}, MaxDigits) \ {<<>>} }

GridAlphabet == {"1", "v", "<", "^", "."}

\* two rows of independent length
GridPrograms ==
  { r0 \o <<"\n">> \o r1 : r0 \in SeqsUpTo(GridAlphabet, MaxRowLen), r1 \in SeqsUpTo(GridAlphabet, MaxRowLen) }

\* the cells that push the value a put program writes: a quoted character, a digit, -1
PutValues == { <<"\"", "A", "\"">>, <<"\"", "@", "\"">>, <<"7">>, <<"0", "1", "-">> }

\* push v, x, y and put; push x, y and get; print the character read
PutRow(v, x, y) ==
  v \o Builder(x) \o Builder(y) \o <<"p">> \o Builder(x) \o Builder(y) \o <<"g", ",">>

\* nothing, or a second, shorter row
PutTails == { <<>>, <<"\n", "1", "2">> }

\* put and get at a cell inside the grid, beside it, or at a negative row or column
PutPrograms ==
  { PutRow(v, x, y) \o t :
      v \in PutValues, x \in (-MaxCoord)..9, y \in (-MaxCoord)..MaxCoord, t \in PutTails }

Programs ==
  TestPrograms \cup StackPrograms \cup LexPrograms \cup DigitDotPrograms \cup GridPrograms
    \cup PutPrograms

---------------------------------------------------------------------------
(* State after construction: BefungeInterpreter.__init__, Lexer.__init__   *)

NoToken == [type |-> "None", value |-> ""]
NoException == [type |-> "None", msg |-> ""]

EofToken == [type |-> "EofToken", value |-> ""]
\* the token's value is kept as the character read; a DigitToken stands for int(char)
DigitToken(c) == [type |-> "DigitToken", value |-> c]
StringToken(c) == [type |-> "StringToken", value |-> c]
CommandToken(c) == [type |-> "CommandToken", value |-> c]

Init ==
  /\ source = <<>>
  /\ program = <<>>
  /\ xpos = 0
  /\ ypos = 0
  /\ dx = 1
  /\ dy = 0
  /\ data = <<>>
  /\ output = <<>>
  /\ token = NoToken
  /\ pc = "init"
  /\ returned = ""
  /\ exception = NoException

---------------------------------------------------------------------------
(* The data stack: the top is the last element *)

\* a first-in-first-out read of the stack
TopFifo(stack) == stack[1]

Top(stack) == stack[Len(stack)]

\* the stack after n pops
Popped(stack, n) == SubSeq(stack, 1, Len(stack) - n)

Push(stack, value) == Append(stack, value)

Abs(v) == IF v < 0 THEN -v ELSE v

\* the model follows a run while the stack stays within its bounds
Bounded(stack) ==
  /\ Len(stack) <= MaxStack
  /\ stack # <<>> => Abs(Top(stack)) <= MaxValue

---------------------------------------------------------------------------
(* How a step of the run ends *)

\* the token was handled; the generator resumes and advances the cursor by `cells`
Executed(tok, newdata, newoutput, ndx, ndy, cells, newprogram) ==
  /\ Bounded(newdata)
  /\ token' = tok
  /\ data' = newdata
  /\ output' = newoutput
  /\ dx' = ndx
  /\ dy' = ndy
  /\ xpos' = xpos + cells * ndx
  /\ ypos' = ypos + cells * ndy
  /\ program' = newprogram
  /\ UNCHANGED <<source, pc, returned, exception>>

\* an exception leaves interpret
Raised(tok, newdata, type, msg) ==
  /\ token' = tok
  /\ data' = newdata
  /\ pc' = "raised"
  /\ exception' = [type |-> type, msg |-> msg]
  /\ UNCHANGED <<source, program, xpos, ypos, dx, dy, output, returned>>

\* the for loop of interpret ends and the joined output is returned
Returns(tok) ==
  /\ token' = tok
  /\ pc' = "returned"
  /\ returned' = Join(output)
  /\ UNCHANGED <<source, program, xpos, ypos, dx, dy, data, output, exception>>

PopFromEmpty(tok) == Raised(tok, <<>>, "IndexError", "pop from empty list")

\* the lexer is at the top of the loop of tokens() and the cell under the cursor is c
Reads(c) == pc = "tokens" /\ HasCell(ypos, xpos) /\ CellAt(ypos, xpos) = c

---------------------------------------------------------------------------
(* interpret: read the program *)

Interpret(str) ==
  /\ pc = "init"
  /\ source' = str
  /\ program' = program \o SplitLines(str)
  /\ pc' = "tokens"
  /\ UNCHANGED <<xpos, ypos, dx, dy, data, output, token, returned, exception>>

\* interpret is called once, with one of the programs of the model
Start ==
  /\ pc = "init"
  /\ \E str \in Programs : Interpret(str)

---------------------------------------------------------------------------
(* Lexer.tokens and Lexer.string *)

\* running off the grid raised as an error instead of ending the run
TokensEofRaises ==
  /\ pc = "tokens"
  /\ ~HasCell(ypos, xpos)
  /\ Raised(token, data, "IndexError", "list index out of range")

TokensEof ==
  /\ pc = "tokens"
  /\ ~HasCell(ypos, xpos)
  /\ Returns(EofToken)

TokensDigit ==
  \E c \in {DigitChars[i] : i \in 1..Len(DigitChars)} :
    /\ Reads(c)
    /\ IsDigit(c)
    /\ Executed(DigitToken(c), Push(data, IntOfDigit(c)), output, dx, dy, 1, program)

\* the opening quote: advance and enter string()
TokensQuote ==
  /\ Reads("\"")
  /\ xpos' = xpos + dx
  /\ ypos' = ypos + dy
  /\ pc' = "string"
  /\ UNCHANGED <<source, program, dx, dy, data, output, token, returned, exception>>

TokensIllegal ==
  /\ pc = "tokens"
  /\ HasCell(ypos, xpos)
  /\ LET char == CellAt(ypos, xpos) IN
       /\ ~IsDigit(char)
       /\ char # "\""
       /\ char \notin CommandLexemes
       /\ Raised(token, data, "SyntaxError", "Illegal character: " \o char)

\* a string mode that still reads a digit as a digit
StringCharDigits ==
  /\ pc = "string"
  /\ HasCell(ypos, xpos)
  /\ LET char == CellAt(ypos, xpos) IN
       /\ char # "\""
       /\ IF IsDigit(char)
          THEN Executed(DigitToken(char), Push(data, IntOfDigit(char)), output, dx, dy, 1, program)
          ELSE Executed(StringToken(char), Push(data, Ord(char)), output, dx, dy, 1, program)

StringChar ==
  /\ pc = "string"
  /\ HasCell(ypos, xpos)
  /\ LET char == CellAt(ypos, xpos) IN
       /\ char # "\""
       /\ Executed(StringToken(char), Push(data, Ord(char)), output, dx, dy, 1, program)

\* the closing quote: string() is exhausted and tokens() advances past the quote
StringClose ==
  /\ pc = "string"
  /\ HasCell(ypos, xpos)
  /\ CellAt(ypos, xpos) = "\""
  /\ xpos' = xpos + dx
  /\ ypos' = ypos + dy
  /\ pc' = "tokens"
  /\ UNCHANGED <<source, program, dx, dy, data, output, token, returned, exception>>

StringEnded ==
  /\ pc = "string"
  /\ ~HasCell(ypos, xpos)
  /\ Raised(token, data, "SyntaxError", "Program ended in string mode")

---------------------------------------------------------------------------
(* The commands *)

\* NoopCommand.execute
Noop ==
  /\ Reads(" ")
  /\ Executed(CommandToken(" "), data, output, dx, dy, 1, program)

\* AimCommand.execute for the command class with this token and direction
Aim(c, ndx, ndy) ==
  /\ Reads(c)
  /\ Executed(CommandToken(c), data, output, ndx, ndy, 1, program)

HeadRight == Aim(">", 1, 0)
HeadLeft == Aim("<", -1, 0)
HeadUp == Aim("^", 0, -1)
HeadDown == Aim("v", 0, 1)

\* b // a
FloorDiv(b, a) == IF a > 0 THEN b \div a ELSE (-b) \div (-a)

\* b % a: the remainder of the floor division
PyMod(b, a) == b - a * FloorDiv(b, a)

\* multiplication with the operator of Plus
MultiplyAsPlus(a, b) == a + b

PlusOperate(a, b) == a + b
MinusOperate(a, b) == b - a
MultiplyOperate(a, b) == a * b
\* a division that rounds toward zero
DivTruncating(a, b) ==
  IF a = 0 THEN 0
  ELSE IF (b < 0) = (a < 0) THEN Abs(b) \div Abs(a) ELSE -(Abs(b) \div Abs(a))

DivOperate(a, b) == IF a = 0 THEN 0 ELSE FloorDiv(b, a)
GreaterThanOperate(a, b) == IF b > a THEN 1 ELSE 0
\* a remainder that takes the sign of the dividend b
ModTruncating(a, b) ==
  IF a = 0 THEN 0
  ELSE IF b < 0 THEN -(Abs(b) % Abs(a)) ELSE Abs(b) % Abs(a)

ModOperate(a, b) == IF a = 0 THEN 0 ELSE PyMod(b, a)
NotOperate(a) == IF a = 0 THEN 1 ELSE 0

\* self.operate of the command class whose token is c
Operate(c, a, b) ==
  CASE c = "+" -> PlusOperate(a, b)
    [] c = "-" -> MinusOperate(a, b)
    [] c = "*" -> MultiplyOperate(a, b)
    [] c = "/" -> DivOperate(a, b)
    [] c = Backtick -> GreaterThanOperate(a, b)
    [] c = "%" -> ModOperate(a, b)

\* BinaryOperator.execute: a, b = pop2(); push(operate(a, b))
BinaryOperator(c) ==
  /\ Reads(c)
  /\ IF Len(data) >= 2
     THEN Executed(CommandToken(c),
                   Push(Popped(data, 2), Operate(c, Top(data), Top(Popped(data, 1)))),
                   output, dx, dy, 1, program)
     ELSE PopFromEmpty(CommandToken(c))

\* the division without its guard: Python raises on a zero divisor
DivUnguarded ==
  /\ Reads("/")
  /\ IF Len(data) >= 2 /\ Top(data) = 0
     THEN Raised(CommandToken("/"), Popped(data, 2), "ZeroDivisionError",
                 "integer division or modulo by zero")
     ELSE BinaryOperator("/")

Plus == BinaryOperator("+")
Minus == BinaryOperator("-")
Multiply == BinaryOperator("*")
Div == BinaryOperator("/")
GreaterThan == BinaryOperator(Backtick)
Mod == BinaryOperator("%")

\* UnaryOperator.execute with Not.operate
Not ==
  /\ Reads("!")
  /\ IF data # <<>>
     THEN Executed(CommandToken("!"), Push(Popped(data, 1), NotOperate(Top(data))),
                   output, dx, dy, 1, program)
     ELSE PopFromEmpty(CommandToken("!"))

\* OutputCommand.execute with "{:d}"
OutputInteger ==
  /\ Reads(".")
  /\ IF data # <<>>
     THEN Executed(CommandToken("."), Popped(data, 1),
                   Append(output, FormatInteger(Top(data))), dx, dy, 1, program)
     ELSE PopFromEmpty(CommandToken("."))

\* OutputCommand.execute with "{:c}"
OutputAscii ==
  /\ Reads(",")
  /\ IF data = <<>>
     THEN PopFromEmpty(CommandToken(","))
     ELSE IF Top(data) >= 0 /\ Top(data) <= MaxCodePoint
     THEN Executed(CommandToken(","), Popped(data, 1),
                   Append(output, FormatAscii(Top(data))), dx, dy, 1, program)
     ELSE Raised(CommandToken(","), Popped(data, 1), "OverflowError",
                 "%c arg not in range(0x110000)")

\* a duplicate that has no default for the empty stack
DuplicateNoDefault(stack) == IF stack = <<>> THEN stack ELSE Push(stack, Top(stack))

\* the stack after Duplicate.execute
DuplicateStack(stack) == Push(stack, IF stack = <<>> THEN 0 ELSE Top(stack))

Duplicate ==
  /\ Reads(":")
  /\ Executed(CommandToken(":"), DuplicateStack(data), output, dx, dy, 1, program)

\* the direction ChooseHorizontalDirection takes for the popped value
HorizontalDirection(value) == IF value = 0 THEN <<1, 0>> ELSE <<-1, 0>>

ChooseHorizontalDirection ==
  /\ Reads("_")
  /\ IF data # <<>>
     THEN LET d == HorizontalDirection(Top(data)) IN
            Executed(CommandToken("_"), Popped(data, 1), output, d[1], d[2], 1, program)
     ELSE PopFromEmpty(CommandToken("_"))

\* the direction the docstring of ChooseVerticalDirection names: up on zero
VerticalDirectionDocstring(value) == IF value = 0 THEN <<0, -1>> ELSE <<0, 1>>

\* the direction ChooseVerticalDirection takes for the popped value
VerticalDirection(value) == IF value = 0 THEN <<0, 1>> ELSE <<0, -1>>

ChooseVerticalDirection ==
  /\ Reads("|")
  /\ IF data # <<>>
     THEN LET d == VerticalDirection(Top(data)) IN
            Executed(CommandToken("|"), Popped(data, 1), output, d[1], d[2], 1, program)
     ELSE PopFromEmpty(CommandToken("|"))

\* a choice that never heads up
RandomChoicesNoUp == {<<-1, 0>>, <<1, 0>>, <<0, 1>>}

\* the directions of [HeadLeft, HeadRight, HeadUp, HeadDown]
RandomChoices == {<<-1, 0>>, <<1, 0>>, <<0, -1>>, <<0, 1>>}

ChooseRandomDirection ==
  /\ Reads("?")
  /\ \E d \in RandomChoices :
       Executed(CommandToken("?"), data, output, d[1], d[2], 1, program)

\* a swap that pushes the two values back in the order it popped them
SwapPushedBack(stack) ==
  LET last == Top(stack)
      penultimate == IF Len(stack) >= 2 THEN Top(Popped(stack, 1)) ELSE 0
  IN  Push(Push(Popped(stack, IF Len(stack) >= 2 THEN 2 ELSE 1), penultimate), last)

\* the stack after Swap.execute on a non-empty stack
SwapStack(stack) ==
  LET last == Top(stack)
      penultimate == IF Len(stack) >= 2 THEN Top(Popped(stack, 1)) ELSE 0
  IN  Push(Push(Popped(stack, IF Len(stack) >= 2 THEN 2 ELSE 1), last), penultimate)

Swap ==
  /\ Reads("\\")
  /\ IF data # <<>>
     THEN Executed(CommandToken("\\"), SwapStack(data), output, dx, dy, 1, program)
     ELSE PopFromEmpty(CommandToken("\\"))

Discard ==
  /\ Reads("$")
  /\ IF data # <<>>
     THEN Executed(CommandToken("$"), Popped(data, 1), output, dx, dy, 1, program)
     ELSE PopFromEmpty(CommandToken("$"))

\* a trampoline whose execute does not advance: the next cell is read
SkipNothing ==
  /\ Reads("#")
  /\ Executed(CommandToken("#"), data, output, dx, dy, 1, program)

\* a trampoline that jumps back over the cell before it
SkipBackwards ==
  /\ Reads("#")
  /\ Executed(CommandToken("#"), data, output, dx, dy, -1, program)

\* Skip.execute advances once, tokens() advances again
Skip ==
  /\ Reads("#")
  /\ Executed(CommandToken("#"), data, output, dx, dy, 2, program)

\* Put.execute: y, x = pop2(); v = pop(); program[y][x] = chr(v)
Put ==
  /\ Reads("p")
  /\ IF Len(data) < 3
     THEN PopFromEmpty(CommandToken("p"))
     ELSE LET y == Top(data)
              x == Top(Popped(data, 1))
              v == Top(Popped(data, 2))
          IN  IF v < 0 \/ v > MaxCodePoint
              THEN Raised(CommandToken("p"), Popped(data, 3), "ValueError",
                          "chr() arg not in range(0x110000)")
              ELSE IF ~PyHasIndex(program, y)
              THEN Raised(CommandToken("p"), Popped(data, 3), "IndexError",
                          "list index out of range")
              ELSE IF ~HasCell(y, x)
              THEN Raised(CommandToken("p"), Popped(data, 3), "IndexError",
                          "list assignment index out of range")
              ELSE /\ v <= MaxChar
                   /\ Executed(CommandToken("p"), Popped(data, 3), output, dx, dy, 1,
                               PySetIndex(program, y, PySetIndex(PyIndex(program, y), x, Chr(v))))

\* a get that reads the source text instead of the program as it is now
GetFromSource ==
  /\ Reads("g")
  /\ IF Len(data) < 2
     THEN PopFromEmpty(CommandToken("g"))
     ELSE LET y == Top(data)
              x == Top(Popped(data, 1))
          IN  IF ~HasCell(y, x)
              THEN Raised(CommandToken("g"), Popped(data, 2), "IndexError",
                          "list index out of range")
              ELSE Executed(CommandToken("g"),
                            Push(Popped(data, 2),
                                 Ord(PyIndex(PyIndex(SplitLines(source), y), x))),
                            output, dx, dy, 1, program)

\* Get.execute: y, x = pop2(); push(ord(program[y][x]))
Get ==
  /\ Reads("g")
  /\ IF Len(data) < 2
     THEN PopFromEmpty(CommandToken("g"))
     ELSE LET y == Top(data)
              x == Top(Popped(data, 1))
          IN  IF ~HasCell(y, x)
              THEN Raised(CommandToken("g"), Popped(data, 2), "IndexError",
                          "list index out of range")
              ELSE Executed(CommandToken("g"), Push(Popped(data, 2), Ord(CellAt(y, x))),
                            output, dx, dy, 1, program)

\* the End command executed like any other command (its execute does nothing)
EndExecuted ==
  /\ Reads("@")
  /\ Executed(CommandToken("@"), data, output, dx, dy, 1, program)

\* interpret sees the End command and breaks out of the loop
End ==
  /\ Reads("@")
  /\ Returns(CommandToken("@"))

---------------------------------------------------------------------------

\* one iteration of the for loop of interpret
Step ==
  \/ TokensEof
  \/ TokensDigit
  \/ TokensQuote
  \/ TokensIllegal
  \/ StringChar
  \/ StringClose
  \/ StringEnded
  \/ Noop
  \/ HeadRight
  \/ HeadLeft
  \/ HeadUp
  \/ HeadDown
  \/ Plus
  \/ Minus
  \/ Multiply
  \/ Div
  \/ GreaterThan
  \/ Mod
  \/ Not
  \/ OutputInteger
  \/ OutputAscii
  \/ Duplicate
  \/ ChooseHorizontalDirection
  \/ ChooseVerticalDirection
  \/ ChooseRandomDirection
  \/ Swap
  \/ Discard
  \/ Skip
  \/ Put
  \/ Get
  \/ End

\* interpret is called, then its loop runs
Next == Start \/ Step

Spec == Init /\ [][Next]_vars

\* the programs of the model in which no cell turns the cursor or rewrites a cell
StraightPrograms ==
  { str \in Programs :
      \A i \in 1..Len(str) : str[i] \notin {">", "<", "^", "v", "_", "|", "?", "p"} }

\* the straight programs, and the test and stack programs for the other commands
RunPrograms == StraightPrograms \cup TestPrograms \cup StackPrograms

\* interpret has been called with one of these programs and read() is done: the
\* state of Init after Start
Running ==
  \E str \in RunPrograms :
    /\ source = str
    /\ program = SplitLines(str)
    /\ xpos = 0
    /\ ypos = 0
    /\ dx = 1
    /\ dy = 0
    /\ data = <<>>
    /\ output = <<>>
    /\ token = NoToken
    /\ pc = "tokens"
    /\ returned = ""
    /\ exception = NoException

\* the runs from the first pass of the loop on; the for loop of interpret keeps
\* asking the generator for the next token, so a step that can be taken is taken
RunSpec == Running /\ [][Step]_vars /\ WF_vars(Step)


---------------------------------------------------------------------------
(* Properties *)

\* interpret has returned or raised
Ended == pc \in {"returned", "raised"}

\* (y,x) names a cell of the grid: row y exists and has a column x
InGrid(y, x) ==
  /\ 0 <= y /\ y < Len(program)
  /\ 0 <= x /\ x < Len(program[y + 1])

\* C1: the run of the factorial program ends at the @ cell, without an error,
\* and interpret returns "40320"
C1_Factorial ==
  (source = FactorialProgram /\ Ended) =>
    /\ pc = "returned"
    /\ exception = NoException
    /\ token = CommandToken("@")
    /\ InGrid(ypos, xpos) /\ program[ypos + 1][xpos + 1] = "@"
    /\ returned = "40320"

C1_Witness ==
  source = FactorialProgram /\ pc = "returned" /\ returned = "40320" /\ xpos = 15 /\ ypos = 0

\* n >= 1 digit characters followed by exactly n dots, in one row
IsDigitDot(text) ==
  /\ Len(text) >= 2
  /\ Len(text) % 2 = 0
  /\ \A i \in 1..(Len(text) \div 2) : text[i] \in {"0", "1", "2", "3", "4", "5", "6", "7", "8", "9"}
  /\ \A i \in ((Len(text) \div 2) + 1)..Len(text) : text[i] = "."

RECURSIVE ReversedText(_, _)
\* the first n characters of text, last first, as one string
ReversedText(text, n) == IF n = 0 THEN "" ELSE text[n] \o ReversedText(text, n - 1)

\* C2: a program of n digits d1..dn followed by n dots returns the digits in
\* reverse order, dn...d1, and ends with an empty stack
C2_DigitsReversed ==
  (IsDigitDot(source) /\ Ended) =>
    /\ pc = "returned"
    /\ returned = ReversedText(source, Len(source) \div 2)
    /\ data = <<>>

C2_Witness ==
  /\ source = <<"1", "2", "3", ".", ".", ".">>
  /\ pc = "returned"
  /\ returned = "321"
  /\ data = <<>>

\* C3: the step that reads @ outside string mode ends the run normally: interpret
\* returns the output accumulated so far and the stack, grid, output, cursor and
\* direction stay as they are; once returned, nothing is read or changed any more;
\* the program whose only cell is @ returns the empty string
C3_HaltAtEnd ==
  [][ /\ (pc = "tokens" /\ HasCell(ypos, xpos) /\ CellAt(ypos, xpos) = "@") =>
           /\ pc' = "returned"
           /\ returned' = Join(output)
           /\ exception' = NoException
           /\ UNCHANGED <<data, program, output, dx, dy, xpos, ypos>>
      /\ pc # "returned"
      /\ (source' = <<"@">> /\ pc' \in {"returned", "raised"}) =>
           (pc' = "returned" /\ returned' = "")
    ]_vars

C3_Witness ==
  /\ pc = "returned"
  /\ token = CommandToken("@")
  /\ source = <<"1", "1", ".", "@">>
  /\ returned = "1"
  /\ data = <<1>>
  /\ xpos = 3

\* the cursor is below the last row
BelowLastRow == ypos >= Len(program)

\* the cursor is on a row of the grid, past its right end
PastRowEnd ==
  /\ 0 <= ypos /\ ypos < Len(program)
  /\ xpos >= Len(program[ypos + 1])

\* C4: outside string mode, a cursor past the right end of its row or below the
\* last row ends the run normally: one end-of-program token, no error, interpret
\* returns the output emitted so far, and nothing follows the end-of-program token
C4_RunsOffGrid ==
  [][ /\ (pc = "tokens" /\ (BelowLastRow \/ PastRowEnd)) =>
           /\ token' = EofToken
           /\ pc' = "returned"
           /\ exception' = NoException
           /\ returned' = Join(output)
           /\ UNCHANGED <<data, program, output>>
      /\ token # EofToken
    ]_vars

\* the end-of-program token at (3,1) of the ragged program: row 0 has a column 3, row 1 has not
C4_Witness ==
  /\ source = RaggedProgram
  /\ token = EofToken
  /\ pc = "returned"
  /\ returned = "1"
  /\ data = <<2>>
  /\ xpos = 3 /\ ypos = 1
  /\ xpos < Len(program[1]) /\ xpos >= Len(program[2])


\* a character that is no digit, not the quote and no registered command
IllegalCharacter(c) ==
  /\ c \notin {"0", "1", "2", "3", "4", "5", "6", "7", "8", "9"}
  /\ c # "\""
  /\ c \notin CommandLexemes

IllegalCharacterError(e) ==
  e.type = "SyntaxError" /\ e.msg # "Program ended in string mode"

\* C5: outside string mode, a cursor on a cell of the grid that holds an illegal
\* character aborts the run with a syntax error and nothing is returned; and the
\* illegal-character error is raised only then, with the cursor on such a cell
C5_IllegalCharacter ==
  [][ /\ (pc = "tokens" /\ InGrid(ypos, xpos) /\ IllegalCharacter(program[ypos + 1][xpos + 1])) =>
           /\ pc' = "raised"
           /\ IllegalCharacterError(exception')
           /\ returned' = ""
      /\ IllegalCharacterError(exception') =>
           /\ pc = "tokens"
           /\ InGrid(ypos, xpos)
           /\ IllegalCharacter(program[ypos + 1][xpos + 1])
    ]_vars

\* C6: in string mode, a cursor that has just left the grid (the cell behind it is
\* in the grid, the cursor is not) aborts the run with the syntax error
\* "Program ended in string mode"
C6_UnterminatedString ==
  [][ (pc = "string" /\ InGrid(ypos - dy, xpos - dx) /\ ~InGrid(ypos, xpos)) =>
        /\ pc' = "raised"
        /\ exception' = [type |-> "SyntaxError", msg |-> "Program ended in string mode"]
    ]_vars

\* the step reads command c outside string mode with at least two values on the stack
BinaryStep(c) == pc = "tokens" /\ HasCell(ypos, xpos) /\ CellAt(ypos, xpos) = c /\ Len(data) >= 2

\* the run goes on with the next cell in the direction of travel
Continues ==
  /\ pc' = "tokens"
  /\ exception' = NoException
  /\ dx' = dx /\ dy' = dy
  /\ xpos' = xpos + dx /\ ypos' = ypos + dy
  /\ UNCHANGED <<program, output>>

\* C7: with at least two values on the stack and 0 on top, / and % replace the
\* top two values by 0, raise nothing, and the run continues with the next cell
C7_ZeroDivisor ==
  [][ ((BinaryStep("/") \/ BinaryStep("%")) /\ data[Len(data)] = 0) =>
        /\ data' = Append(SubSeq(data, 1, Len(data) - 2), 0)
        /\ Continues
    ]_vars

C7_Witness ==
  /\ source = <<"5", "2", "0", "/">>
  /\ token = CommandToken("/")
  /\ data = <<5, 0>>
  /\ pc = "tokens"
  /\ xpos = 4

\* q is b/a rounded toward minus infinity
IsFloorQuotient(q, b, a) ==
  IF a > 0 THEN a * q <= b /\ b < a * (q + 1)
  ELSE a * q >= b /\ b > a * (q + 1)

\* C8: with a on top and b below it, + - * / and greater-than replace a and b by
\* a+b, b-a, a*b, floor(b/a) (a # 0) and (1 if b > a else 0); the depth drops by
\* one and the values below b stay
C8_BinaryOperators ==
  [][ \A c \in {"+", "-", "*", "/", Backtick} :
        (BinaryStep(c) /\ (c = "/" => data[Len(data)] # 0)) =>
          LET a == data[Len(data)]
              b == data[Len(data) - 1]
              r == data'[Len(data')]
          IN  /\ Len(data') = Len(data) - 1
              /\ SubSeq(data', 1, Len(data) - 2) = SubSeq(data, 1, Len(data) - 2)
              /\ c = "+" => r = a + b
              /\ c = "-" => r = b - a
              /\ c = "*" => r = a * b
              /\ c = "/" => IsFloorQuotient(r, b, a)
              /\ c = Backtick => r = (IF b > a THEN 1 ELSE 0)
              /\ pc' = "tokens"
    ]_vars

\* -1 / 2 below a 5: the quotient is -1, not 0
C8_Witness ==
  /\ source = <<"5", "0", "1", "-", "2", "/">>
  /\ token = CommandToken("/")
  /\ data = <<5, -1>>
  /\ pc = "tokens"

\* C9: the step that reads : raises nothing and adds one value to the stack, the
\* old top, or 0 on an empty stack; the values already there stay
C9_Duplicate ==
  [][ (pc = "tokens" /\ HasCell(ypos, xpos) /\ CellAt(ypos, xpos) = ":") =>
        /\ pc' = "tokens"
        /\ exception' = NoException
        /\ Len(data') = Len(data) + 1
        /\ SubSeq(data', 1, Len(data)) = data
        /\ data'[Len(data')] = (IF Len(data) = 0 THEN 0 ELSE data[Len(data)])
    ]_vars

C9_Witness ==
  /\ source = <<":">>
  /\ token = CommandToken(":")
  /\ data = <<0>>
  /\ pc = "tokens"

\* C10: the step that reads \ exchanges the top two values of a stack of at least
\* two and keeps the depth and the values below; a stack [n] becomes [n, 0]
C10_Swap ==
  [][ (pc = "tokens" /\ HasCell(ypos, xpos) /\ CellAt(ypos, xpos) = "\\") =>
        /\ Len(data) >= 2 =>
             /\ Len(data') = Len(data)
             /\ data'[Len(data)] = data[Len(data) - 1]
             /\ data'[Len(data) - 1] = data[Len(data)]
             /\ SubSeq(data', 1, Len(data) - 2) = SubSeq(data, 1, Len(data) - 2)
             /\ pc' = "tokens"
        /\ Len(data) = 1 =>
             /\ data' = <<data[1], 0>>
             /\ pc' = "tokens"
    ]_vars

\* [5] becomes [5, 0]
C10_Witness ==
  /\ source = <<"5", "\\">>
  /\ token = CommandToken("\\")
  /\ data = <<5, 0>>
  /\ pc = "tokens"

\* the step reads command c outside string mode, at a cell inside the grid
CommandStep(c) == pc = "tokens" /\ InGrid(ypos, xpos) /\ program[ypos + 1][xpos + 1] = c

\* C11: p pops y, then x, then v and writes the character with code v at row y,
\* column x of the grid (65 is written as A); no other step changes a cell; g pops
\* y and x and pushes the code of the character that is in the cell now; and the
\* token the scanner yields is made of the character that is in the cell now
C11_PutGet ==
  [][ /\ (CommandStep("p") /\ Len(data) >= 3) =>
            LET y == data[Len(data)]
                x == data[Len(data) - 1]
                v == data[Len(data) - 2]
            IN  (InGrid(y, x) /\ v \in 0..MaxChar) =>
                  /\ pc' = "tokens"
                  /\ data' = SubSeq(data, 1, Len(data) - 3)
                  /\ Ord(program'[y + 1][x + 1]) = v
                  /\ v = 65 => program'[y + 1][x + 1] = "A"
      /\ (pc # "init" /\ ~CommandStep("p")) => program' = program
      /\ (CommandStep("g") /\ Len(data) >= 2) =>
            LET y == data[Len(data)]
                x == data[Len(data) - 1]
            IN  InGrid(y, x) =>
                  /\ pc' = "tokens"
                  /\ data' = Append(SubSeq(data, 1, Len(data) - 2), Ord(program[y + 1][x + 1]))
      /\ (/\ pc \in {"tokens", "string"}
          /\ InGrid(ypos, xpos)
          /\ program[ypos + 1][xpos + 1] # "\""
          /\ pc' # "raised") =>
            token'.value = program[ypos + 1][xpos + 1]
    ]_vars

\* "@" written by p over the comma in column 9: g reads back 64, then the scanner
\* meets @ in column 9 and the run ends without the output of the comma
C11_Witness ==
  /\ source = PutRow(<<"\"", "@", "\"">>, 9, 0)
  /\ program[1][10] = "@"
  /\ data = <<64>>
  /\ token = CommandToken("@")
  /\ pc = "returned"
  /\ returned = ""
  /\ xpos = 9

\* C12 as stated: with a # 0 on top and b below it, % pushes a remainder that is 0
\* or has the sign of b, the dividend
C12_SignOfDividend ==
  [][ (BinaryStep("%") /\ data[Len(data)] # 0) =>
        LET b == data[Len(data) - 1]
            r == data'[Len(data')]
        IN  r = 0 \/ (r > 0) = (b > 0)
    ]_vars

\* C12: with a # 0 on top and b below it, % replaces a and b by the remainder r
\* of the floor division of b by a: b - r is a multiple of a, |r| < |a|, and r is
\* 0 or has the sign of a, the divisor; the values below b stay
C12_Mod ==
  [][ (BinaryStep("%") /\ data[Len(data)] # 0) =>
        LET a == data[Len(data)]
            b == data[Len(data) - 1]
            r == data'[Len(data')]
        IN  /\ pc' = "tokens"
            /\ Len(data') = Len(data) - 1
            /\ SubSeq(data', 1, Len(data) - 2) = SubSeq(data, 1, Len(data) - 2)
            /\ (IF r < 0 THEN -r ELSE r) < (IF a < 0 THEN -a ELSE a)
            /\ \E q \in (-MaxValue)..MaxValue : b - r = q * a
            /\ r = 0 \/ (r > 0) = (a > 0)
    ]_vars

\* -1 % 2 is 1: the sign of the divisor 2, not of the dividend -1
C12_Witness ==
  /\ source = <<"0", "1", "-", "2", "%">>
  /\ token = CommandToken("%")
  /\ data = <<1>>
  /\ pc = "tokens"

CodeOf(c) ==
  CASE c = "1" -> 49
    [] c = "a" -> 97
    [] c = "#" -> 35
    [] c = "@" -> 64
    [] c = "<" -> 60
    [] c = ":" -> 58
    [] c = "." -> 46
    [] OTHER -> Ord(c)

\* the cursor moves one cell in the unchanged direction; grid and output stay
StringAdvance ==
  /\ xpos' = xpos + dx /\ ypos' = ypos + dy
  /\ UNCHANGED <<dx, dy, program, output>>
  /\ exception' = NoException

\* C14: in string mode a cell that is not the quote only pushes its character
\* code, whether it holds a digit, a command or a character illegal elsewhere:
\* the direction, the output and the grid stay and string mode goes on with the
\* next cell; the opening and the closing quote push nothing, and after the
\* closing quote normal scanning resumes with the next cell
C14_StringMode ==
  [][ /\ (pc = "string" /\ HasCell(ypos, xpos) /\ CellAt(ypos, xpos) # "\"") =>
            /\ data' = Append(data, CodeOf(CellAt(ypos, xpos)))
            /\ token' = StringToken(CellAt(ypos, xpos))
            /\ pc' = "string"
            /\ StringAdvance
      /\ (pc = "string" /\ HasCell(ypos, xpos) /\ CellAt(ypos, xpos) = "\"") =>
            /\ data' = data
            /\ pc' = "tokens"
            /\ StringAdvance
      /\ (pc = "tokens" /\ HasCell(ypos, xpos) /\ CellAt(ypos, xpos) = "\"") =>
            /\ data' = data
            /\ pc' = "string"
            /\ StringAdvance
    ]_vars

\* "1@" pushes 49 and 64, does not end the run at @, and scanning resumes at column 4
C14_Witness ==
  /\ source = <<"\"", "1", "@", "\"">>
  /\ data = <<49, 64>>
  /\ output = <<>>
  /\ token = StringToken("@")
  /\ pc = "tokens"
  /\ xpos = 4 /\ dx = 1

\* C15: the step that reads # at (x,y) with direction (dx,dy) leaves the cursor at
\* (x+2dx, y+2dy), so that the cell at (x+dx, y+dy) is not read; the stack, the
\* grid, the output and the direction stay
C15_Skip ==
  [][ (pc = "tokens" /\ HasCell(ypos, xpos) /\ CellAt(ypos, xpos) = "#") =>
        /\ xpos' = xpos + 2 * dx
        /\ ypos' = ypos + 2 * dy
        /\ UNCHANGED <<data, program, output, dx, dy>>
        /\ token' = CommandToken("#")
        /\ pc' = "tokens"
        /\ exception' = NoException
    ]_vars

\* #@1. : the @ in column 1 does not end the run, which prints 1 and runs off the row
C15_Witness ==
  /\ source = <<"#", "@", "1", ".">>
  /\ pc = "returned"
  /\ token = EofToken
  /\ returned = "1"
  /\ xpos = 4

\* C16: the step that reads \ raises no error whatever the depth of the stack,
\* and the run goes on; on an empty stack both missing values count as 0
C16_SwapNeverAborts ==
  [][ (pc = "tokens" /\ HasCell(ypos, xpos) /\ CellAt(ypos, xpos) = "\\") =>
        /\ pc' = "tokens"
        /\ exception' = NoException
        /\ data = <<>> => data' = <<0, 0>>
    ]_vars

\* the grids g and h have the same number of rows and the same row lengths
SameShape(g, h) ==
  /\ Len(g) = Len(h)
  /\ \A r \in 1..Len(g) : Len(g[r]) = Len(h[r])

\* C17: no step after the load changes the number of rows or the length of a row;
\* a p whose coordinates do not name a cell (y < 0, y >= number of rows, x < 0 or
\* x >= length of row y) raises an error and changes no cell; a p with in-bounds
\* coordinates changes no cell other than (y,x)
C17_PutBounds ==
  [][ /\ pc # "init" => SameShape(program', program)
      /\ (CommandStep("p") /\ Len(data) >= 3) =>
            LET y == data[Len(data)]
                x == data[Len(data) - 1]
            IN  IF InGrid(y, x)
                THEN \A r \in 1..Len(program) : \A c \in 1..Len(program[r]) :
                       (r # y + 1 \/ c # x + 1) => program'[r][c] = program[r][c]
                ELSE pc' = "raised" /\ program' = program
    ]_vars

\* C18: a scan step with the cursor outside the grid (x < 0 or y < 0 included)
\* yields no digit, string-character or command token: outside string mode it is
\* the end of the program, in string mode the unterminated-string error; a step
\* with the cursor inside the grid is the only one that yields another token
C18_TokensInsideGrid ==
  [][ /\ (pc = "tokens" /\ ~InGrid(ypos, xpos)) =>
            /\ pc' = "returned"
            /\ token' = EofToken
            /\ UNCHANGED <<data, output, program>>
      /\ (pc = "string" /\ ~InGrid(ypos, xpos)) =>
            /\ pc' = "raised"
            /\ exception' = [type |-> "SyntaxError", msg |-> "Program ended in string mode"]
            /\ UNCHANGED <<data, output, program>>
    ]_vars

\* right, left, down, up
Cardinals == {<<1, 0>>, <<-1, 0>>, <<0, 1>>, <<0, -1>>}

\* the characters of the commands that set the direction
DirectionCommands == {">", "<", "^", "v", "_", "|", "?"}

\* C19: a run starts with an empty stack, an empty output and the cursor at (0,0)
\* heading right (1,0); the direction is always one of the four cardinals; a step
\* that changes the direction reads one of > < ^ v _ | ?; and where ? is read, each
\* of the four cardinals is a possible direction after the step
C19_Direction ==
  /\ [](pc = "init" =>
          /\ data = <<>> /\ output = <<>>
          /\ xpos = 0 /\ ypos = 0
          /\ dx = 1 /\ dy = 0)
  /\ [](<<dx, dy>> \in Cardinals)
  /\ []((pc = "tokens" /\ HasCell(ypos, xpos) /\ CellAt(ypos, xpos) = "?") =>
          \A d \in Cardinals : ENABLED (Step /\ pc' = "tokens" /\ dx' = d[1] /\ dy' = d[2]))
  /\ [][ /\ pc = "init" => UNCHANGED <<data, output, xpos, ypos, dx, dy>>
         /\ <<dx', dy'>> # <<dx, dy>> =>
              /\ pc = "tokens"
              /\ HasCell(ypos, xpos)
              /\ CellAt(ypos, xpos) \in DirectionCommands
         /\ (pc = "tokens" /\ HasCell(ypos, xpos) /\ CellAt(ypos, xpos) = "?") =>
              /\ <<dx', dy'>> \in Cardinals
              /\ UNCHANGED <<data, output, program>>
       ]_vars

\* ? as the only cell of the program has turned the cursor upwards
C19_Witness ==
  /\ source = <<"?">>
  /\ token = CommandToken("?")
  /\ dx = 0 /\ dy = -1
  /\ xpos = 0 /\ ypos = -1
  /\ pc = "tokens"

\* the source holds none of > < ^ v _ | ? and no p
NoTurns == \A i \in 1..Len(source) : source[i] \notin (DirectionCommands \cup {"p"})

\* interpret is in its loop: the scanner is outside or inside string mode
Scanning == pc \in {"tokens", "string"}

\* C20: the run of a program without > < ^ v _ | ? and without p ends, by @, by
\* the end of the program or by an error: the cursor stays on row 0 heading right,
\* every scan step that does not end the run moves it to a larger x, and a scan
\* step at or beyond the end of row 0 ends the run, so that no run has more than
\* (length of row 0) + 1 scan steps
C20_Terminates ==
  /\ []((NoTurns /\ Scanning) =>
          /\ ypos = 0 /\ dx = 1 /\ dy = 0
          /\ 0 <= xpos /\ xpos <= Len(program[1]) + 1)
  /\ [][ (NoTurns /\ Scanning) =>
           /\ Scanning' => xpos' > xpos
           /\ ~Scanning' => Ended'
           /\ xpos >= Len(program[1]) => Ended'
           /\ program' = program
       ]_vars
  /\ ((NoTurns /\ Scanning) ~> Ended)

\* 1#@. : four cells, three scan steps, and the run has ended by running off the row
C20_Witness ==
  /\ source = <<"1", "#", "@", ".">>
  /\ NoTurns
  /\ pc = "returned"
  /\ token = EofToken
  /\ returned = "1"
  /\ xpos = 4 /\ ypos = 0

====
